---- MODULE Spec2Model ----
(***************************************************************************)
(* Model of WatchDog/watchdog/watcher.py: class Watcher, the supervisor    *)
(* that runs BEAGLE, watches its standard output for stalls and            *)
(* OutOfMemory errors, filters the stalled window and stitches the         *)
(* filtered window back into the VCF.                                      *)
(*                                                                         *)
(* A VCF is [hdr, recs]: the number of header blocks and the sequence of   *)
(* body records.  A record is [chrom, pos, score]; score = NoScore means   *)
(* the INFO column has no fltr_field entry.  One step of the model is one  *)
(* stretch of the coroutine between two awaits.  The Watcher is built with *)
(* heap_size '5g' and a locuspocus store (self.loci exists).               *)
(***************************************************************************)
EXTENDS Integers, Sequences, FiniteSets, TLC

\* ---------------------------------------------------------------- bounds
MaxPos == 3          \* positions 1..MaxPos on the chromosome
MaxScore == 2        \* quality scores 1..MaxScore
Timeout == 2         \* self.timeout, in seconds (scaled down)
FDen == 4            \* fltr_threshold is FNum / FDen
MaxHeapErrors == 2   \* OutOfMemory lines the job prints in one behaviour
MaxRecoveries == 1   \* times run() enters filter_window
K == 1               \* window size at which a cooperative job stops stalling

\* ------------------------------------------------------ program constants
CheckEvery == 1      \* check_every
InitHeap == 5        \* heap_size = '5g'
HeapStep == 10       \* old_heap_size + 10

Chroms == {"chr1"}
NoScore == 0
Scores == 1 .. MaxScore
FNums == {0, 2}
Artifacts == {"vcf", "log"}

Min(a, b) == IF a < b THEN a ELSE b
Max(a, b) == IF a > b THEN a ELSE b

\* cur_window_chrom / cur_window_start / cur_window_end, all None
NoWindow == [chrom |-> "None", start |-> 0, end |-> 0]
Windows == {w \in [chrom : Chroms, start : 1 .. MaxPos, end : 1 .. MaxPos] :
              w.start <= w.end}

\* a local that is not assigned yet
NoVcf == [hdr |-> 0, recs |-> <<>>]

\* input VCFs: one header, one record per position, in position order,
\* each record with a score or without the field
InputVcfs == {[hdr  |-> 1,
               recs |-> [p \in 1 .. MaxPos |->
                          [chrom |-> "chr1", pos |-> p, score |-> f[p]]]] :
                f \in [1 .. MaxPos -> {NoScore} \cup Scores]}

\* lines BEAGLE may print
Lines == {[kind |-> "Window", window |-> w] : w \in Windows}
         \cup {[kind |-> k, window |-> NoWindow] :
                 k \in {"Reference", "Markers", "OutOfMemory", "Other", "Malformed"}}

VARIABLES
  pc,               \* where run() is
  input_vcf,        \* self.input_vcf
  current_vcf,      \* self._current_vcf (content of the file)
  old_vcf,          \* filter_window's local old_vcf
  fltr_threshold,   \* self.fltr_threshold, numerator over FDen
  heap_size,        \* self.heap_size, in g
  total_waiting,    \* self.total_waiting
  cur_window,       \* self.cur_window_chrom/start/end
  process,          \* self.process: "None", or the state of the process it names
  orphans,          \* live BEAGLE processes self.process no longer names
  artifacts,        \* which of out_prefix.vcf.gz / out_prefix.log exist
  loci,             \* loci handed to self.loci.add_locus, in order
  outcome,          \* how the latest watch_beagle call ended
  silence,          \* seconds without a line since the later of the latest
                    \* spawn and the latest line of that run
  num_heap_errors,  \* BeagleHeapError caught so far
  proc_heap,        \* -Xmx of the latest BEAGLE command
  recoveries,       \* calls of filter_window so far
  announced,        \* the latest BEAGLE run has printed a Window line
  stall_window      \* cur_window when run() caught BeagleTimeoutError, until
                    \* filter_window returns

vars == <<pc, input_vcf, current_vcf, old_vcf, fltr_threshold, heap_size,
          total_waiting, cur_window, process, orphans, artifacts, loci,
          outcome, silence, num_heap_errors, proc_heap, recoveries,
          announced, stall_window>>

Terminal == {"done", "fatal", "exit1"}
Reading == {"outer_read", "inner_read"}

Init ==
  /\ pc = "outer_spawn"
  /\ input_vcf \in InputVcfs
  /\ current_vcf = input_vcf
  /\ old_vcf = NoVcf
  /\ fltr_threshold \in FNums
  /\ heap_size = InitHeap
  /\ total_waiting = 0
  /\ cur_window = NoWindow
  /\ process = "None"
  /\ orphans = 0
  /\ artifacts = {}
  /\ loci = <<>>
  /\ outcome = "none"
  /\ silence = 0
  /\ num_heap_errors = 0
  /\ proc_heap = 0
  /\ recoveries = 0
  /\ announced = FALSE
  /\ stall_window = NoWindow

\* ------------------------------------------------------------ VCF queries
\* arguments of current_vcf_lines that are left at None, and end=''
NoneChrom == "None"
NonePos == -1
EndOfChrom == -2

\* bcftools view [-H] vcf -r chromosome:start-end: the header unless -H,
\* then the records of the chromosome with start <= pos <= end (none when
\* start > end); end='' leaves the range open
bcftools_view(vcf, chromosome, start, end, header) ==
  [hdr  |-> IF header THEN vcf.hdr ELSE 0,
   recs |-> SelectSeq(vcf.recs,
              LAMBDA r : /\ r.chrom = chromosome
                         /\ r.pos >= start
                         /\ (end = EndOfChrom \/ r.pos <= end))]

\* Watcher.current_vcf_lines: None arguments default to the current window
current_vcf_lines(vcf, chromosome, start, end, header) ==
  LET c == IF chromosome = NoneChrom THEN cur_window.chrom ELSE chromosome
      s == IF start = NonePos THEN cur_window.start ELSE start
      e == IF end = NonePos THEN cur_window.end ELSE end
  IN  bcftools_view(vcf, c, Max(0, s), e, header)

\* ------------------------------------------------------ the window filter
\* the k-th smallest (k = 0, 1, ...) element of a non-empty sequence
KthSmallest(s, k) ==
  CHOOSE v \in {s[i] : i \in 1 .. Len(s)} :
    /\ Cardinality({i \in 1 .. Len(s) : s[i] < v}) <= k
    /\ k < Cardinality({i \in 1 .. Len(s) : s[i] <= v})

\* np.quantile with the fraction ignored: the minimum
np_quantile_min(scores, fnum) == KthSmallest(scores, 0) * FDen

\* np.quantile(scores, fnum / FDen), linear interpolation, times FDen
np_quantile(scores, fnum) ==
  LET n  == Len(scores)
      h  == fnum * (n - 1)              \* virtual index, times FDen
      lo == h \div FDen
      hi == Min(lo + 1, n - 1)
      a  == KthSmallest(scores, lo)
      b  == KthSmallest(scores, hi)
  IN  a * FDen + (h - lo * FDen) * (b - a)

\* score > quantile_cutoff
Passes_strict(score, cutoff) == score * FDen > cutoff

\* score >= quantile_cutoff
Passes(score, cutoff) == score * FDen >= cutoff

\* the scores list: one entry per line that carries fltr_field
ScoresOf(lines) ==
  LET scored == SelectSeq(lines, LAMBDA r : r.score # NoScore)
  IN  [i \in 1 .. Len(scored) |-> scored[i].score]

\* the lines of zip(lines, scores) whose paired score passes (keep = TRUE)
\* or fails (keep = FALSE) the cutoff
RECURSIVE ZipSelect(_, _, _, _, _)
ZipSelect(lines, scores, cutoff, keep, i) ==
  IF i > Min(Len(lines), Len(scores)) THEN <<>>
  ELSE (IF Passes(scores[i], cutoff) = keep THEN <<lines[i]>> ELSE <<>>)
       \o ZipSelect(lines, scores, cutoff, keep, i + 1)

\* the heap is set to 10 instead of being raised by 10
HeapIncrease_set(h) == HeapStep

\* old_heap_size + 10
HeapIncrease(h) == h + HeapStep

\* os.remove of out_prefix.vcf.gz only
remove_outputs_vcf(a) == a \ {"vcf"}

\* os.remove of out_prefix.vcf.gz and out_prefix.log, each if it exists
remove_outputs(a) == a \ Artifacts

\* the counter only ever meets `>= self.timeout`: it saturates above it
WaitCap == Timeout + CheckEvery
Waited(t) == Min(t + CheckEvery, WaitCap)

\* a cooperative job never stalls nor runs out of memory on a VCF whose
\* current window holds at most K records
Good ==
  /\ cur_window # NoWindow
  /\ Len(bcftools_view(current_vcf, cur_window.chrom, cur_window.start,
                       cur_window.end, FALSE).recs) <= K

\* ---------------------------------------------------------------- actions
\* watch_beagle that clears total_waiting before it starts BEAGLE
watch_beagle_spawn_reset ==
  /\ pc \in {"outer_spawn", "inner_spawn"}
  /\ pc' = IF pc = "outer_spawn" THEN "outer_read" ELSE "inner_read"
  /\ process' = "alive"
  /\ orphans' = IF process = "alive" THEN orphans + 1 ELSE orphans
  /\ proc_heap' = heap_size
  /\ artifacts' = Artifacts
  /\ outcome' = "running"
  /\ silence' = 0
  /\ announced' = FALSE
  /\ total_waiting' = 0
  /\ UNCHANGED <<input_vcf, current_vcf, old_vcf, fltr_threshold, heap_size,
                 cur_window, loci, num_heap_errors, recoveries, stall_window>>

\* watch_beagle: asyncio.create_subprocess_exec(*self.beagle_command)
watch_beagle_spawn ==
  /\ pc \in {"outer_spawn", "inner_spawn"}
  /\ pc' = IF pc = "outer_spawn" THEN "outer_read" ELSE "inner_read"
  /\ process' = "alive"
  /\ orphans' = IF process = "alive" THEN orphans + 1 ELSE orphans
  /\ proc_heap' = heap_size
  /\ artifacts' = Artifacts
  /\ outcome' = "running"
  /\ silence' = 0
  /\ announced' = FALSE
  /\ UNCHANGED <<input_vcf, current_vcf, old_vcf, fltr_threshold, heap_size,
                 total_waiting, cur_window, loci, num_heap_errors, recoveries,
                 stall_window>>

\* a line that is not an OutOfMemory line and parses (the sample and marker
\* counts it may carry are not tracked)
parse_current_info(l, c) ==
  /\ l.kind \in {"Window", "Reference", "Markers", "Other"}
  /\ l.kind = "Window" /\ c =>
       bcftools_view(current_vcf, l.window.chrom, l.window.start,
                     l.window.end, FALSE).recs # <<>>
  /\ cur_window' = IF l.kind = "Window" THEN l.window ELSE cur_window
  /\ announced' = (announced \/ l.kind = "Window")
  /\ total_waiting' = 0
  /\ silence' = 0
  /\ UNCHANGED <<pc, heap_size, num_heap_errors, outcome>>

\* the TypeError of a line that does not parse, caught like a BeagleHeapError
\* without the heap increase
parse_error_caught(l, c) ==
  /\ l.kind = "Malformed"
  /\ ~c
  /\ pc' = IF pc = "outer_read" THEN "outer_spawn" ELSE "filter"
  /\ outcome' = "error"
  /\ UNCHANGED <<cur_window, total_waiting, silence, heap_size, num_heap_errors,
                 announced>>

\* a line with a known prefix that the regular expression does not match:
\* re.match returns None and subscripting it raises TypeError
parse_error(l, c) ==
  /\ l.kind = "Malformed"
  /\ ~c
  /\ pc' = "fatal"
  /\ outcome' = "error"
  /\ UNCHANGED <<cur_window, total_waiting, silence, heap_size, num_heap_errors,
                 announced>>

\* 'ERROR: java.lang.OutOfMemoryError:' raises BeagleHeapError, caught by
\* run() or by filter_window()
heap_error(l, c) ==
  /\ l.kind = "OutOfMemory"
  /\ num_heap_errors < MaxHeapErrors
  /\ ~(c /\ Good)
  /\ heap_size' = HeapIncrease(heap_size)
  /\ num_heap_errors' = num_heap_errors + 1
  /\ outcome' = "MemoryExhausted"
  /\ pc' = IF pc = "outer_read" THEN "outer_spawn" ELSE "filter"
  /\ UNCHANGED <<cur_window, total_waiting, silence, announced>>

\* watch_beagle: readline() returned a line within check_every
watch_beagle_line(c) ==
  /\ pc \in Reading
  /\ \E l \in Lines :
       parse_current_info(l, c) \/ parse_error(l, c) \/ heap_error(l, c)
  /\ UNCHANGED <<input_vcf, current_vcf, old_vcf, fltr_threshold, process,
                 orphans, artifacts, loci, proc_heap, recoveries, stall_window>>

\* watch_beagle: asyncio.TimeoutError
watch_beagle_timeout(c) ==
  /\ pc \in Reading
  /\ c /\ Good => silence + CheckEvery < Timeout
  /\ total_waiting' = Waited(total_waiting)
  /\ silence' = Waited(silence)
  /\ pc = "outer_read" /\ total_waiting' >= Timeout => recoveries < MaxRecoveries
  /\ IF total_waiting' >= Timeout
     THEN /\ process' = "dead"
          /\ artifacts' = remove_outputs(artifacts)
          /\ outcome' = "StallTimeout"
          /\ pc' = "filter"
          /\ old_vcf' = IF pc = "outer_read" THEN current_vcf ELSE old_vcf
          /\ recoveries' = IF pc = "outer_read" THEN recoveries + 1
                           ELSE recoveries
          /\ stall_window' = IF pc = "outer_read" THEN cur_window
                             ELSE stall_window
     ELSE UNCHANGED <<process, artifacts, outcome, pc, old_vcf, recoveries,
                      stall_window>>
  /\ UNCHANGED <<input_vcf, current_vcf, fltr_threshold, heap_size, cur_window,
                 orphans, loci, num_heap_errors, proc_heap, announced>>

\* end of file that ends run() from the sub-loop of filter_window too
watch_beagle_eof_done ==
  /\ pc \in Reading
  /\ process' = "None"
  /\ outcome' = "Completed"
  /\ pc' = "done"
  /\ UNCHANGED <<input_vcf, current_vcf, old_vcf, fltr_threshold, heap_size,
                 total_waiting, cur_window, orphans, artifacts, loci, silence,
                 num_heap_errors, proc_heap, recoveries,
                 announced, stall_window>>

\* watch_beagle: end of file, process.wait(), self.process = None
watch_beagle_eof ==
  /\ pc \in Reading
  /\ process' = "None"
  /\ outcome' = "Completed"
  /\ pc' = IF pc = "outer_read" THEN "done" ELSE "stitch"
  /\ UNCHANGED <<input_vcf, current_vcf, old_vcf, fltr_threshold, heap_size,
                 total_waiting, cur_window, orphans, artifacts, loci, silence,
                 num_heap_errors, proc_heap, recoveries,
                 announced, stall_window>>

\* filter_window: self.current_vcf = await self.split_out_current_window()
split_out_current_window ==
  /\ pc = "filter"
  /\ IF cur_window = NoWindow
     THEN \* max(0, None) raises TypeError
          /\ pc' = "fatal"
          /\ UNCHANGED <<current_vcf, loci>>
     ELSE LET window == current_vcf_lines(current_vcf, NoneChrom, NonePos,
                                          NonePos, TRUE)
              lines  == window.recs
              scores == ScoresOf(lines)
          IN  IF scores = <<>>
              THEN \* np.quantile of an empty list: IndexError, or nan with
                   \* a warning, depending on the numpy release
                   \/ /\ pc' = "fatal"
                      /\ UNCHANGED <<current_vcf, loci>>
                   \/ /\ pc' = "inner_spawn"
                      /\ current_vcf' = [hdr |-> window.hdr, recs |-> <<>>]
                      /\ UNCHANGED loci
              ELSE LET quantile_cutoff == np_quantile(scores, fltr_threshold)
                   IN  /\ pc' = "inner_spawn"
                       /\ current_vcf' =
                            [hdr  |-> window.hdr,
                             recs |-> ZipSelect(lines, scores, quantile_cutoff,
                                                TRUE, 1)]
                       /\ loci' = loci \o ZipSelect(lines, scores,
                                                    quantile_cutoff, FALSE, 1)
  /\ UNCHANGED <<input_vcf, old_vcf, fltr_threshold, heap_size, total_waiting,
                 cur_window, process, orphans, artifacts, outcome, silence,
                 num_heap_errors, proc_heap, recoveries,
                 announced, stall_window>>

\* filter_window after its loop: regions before, inside and after the window.
\* The first query passes no start, so it starts at cur_window_start.  The
\* current_vcf setter compresses and indexes the file and keeps its lines.
filter_window_stitch ==
  /\ pc = "stitch"
  /\ LET good_window == current_vcf
         before == current_vcf_lines(old_vcf, NoneChrom, NonePos,
                                     cur_window.start - 1, TRUE)
         after  == current_vcf_lines(old_vcf, NoneChrom, cur_window.end + 1,
                                     EndOfChrom, FALSE)
     IN  current_vcf' = [hdr  |-> before.hdr + after.hdr,
                         recs |-> before.recs \o good_window.recs \o after.recs]
  /\ pc' = "outer_spawn"
  /\ stall_window' = NoWindow
  /\ UNCHANGED <<input_vcf, old_vcf, fltr_threshold, heap_size, total_waiting,
                 cur_window, process, orphans, artifacts, loci, outcome,
                 silence, num_heap_errors, proc_heap, recoveries, announced>>

\* _sigint_handler: kill self.process if it is not None, sys.exit(1)
sigint_handler ==
  /\ pc \notin Terminal
  /\ process' = IF process = "alive" THEN "dead" ELSE process
  /\ pc' = "exit1"
  /\ UNCHANGED <<input_vcf, current_vcf, old_vcf, fltr_threshold, heap_size,
                 total_waiting, cur_window, orphans, artifacts, loci, outcome,
                 silence, num_heap_errors, proc_heap, recoveries,
                 announced, stall_window>>

\* a BEAGLE process that nobody reads any more terminates by itself
job_exit ==
  /\ \/ /\ orphans > 0
        /\ orphans' = orphans - 1
        /\ UNCHANGED process
     \/ /\ process = "alive"
        /\ pc \notin Reading
        /\ process' = "dead"
        /\ UNCHANGED orphans
  /\ UNCHANGED <<pc, input_vcf, current_vcf, old_vcf, fltr_threshold, heap_size,
                 total_waiting, cur_window, artifacts, loci, outcome, silence,
                 num_heap_errors, proc_heap, recoveries,
                 announced, stall_window>>

\* a BEAGLE process that is still alive writes out_prefix.vcf.gz and
\* out_prefix.log again
job_write ==
  /\ process = "alive" \/ orphans > 0
  /\ artifacts # Artifacts
  /\ artifacts' = Artifacts
  /\ UNCHANGED <<pc, input_vcf, current_vcf, old_vcf, fltr_threshold, heap_size,
                 total_waiting, cur_window, process, orphans, loci, outcome,
                 silence, num_heap_errors, proc_heap, recoveries,
                 announced, stall_window>>

Next ==
  \/ watch_beagle_spawn
  \/ watch_beagle_line(FALSE)
  \/ watch_beagle_timeout(FALSE)
  \/ watch_beagle_eof
  \/ split_out_current_window
  \/ filter_window_stitch
  \/ sigint_handler
  \/ job_exit
  \/ job_write

Spec == Init /\ [][Next]_vars

\* A cooperative environment: every input record carries the quality field,
\* the drop fraction is > 0, the operator does not interrupt, BEAGLE prints
\* no line the parser rejects, announces only windows that hold a record of
\* its input, and neither stalls nor runs out of memory on a VCF whose
\* current window holds at most K records.
InitCoop == Init /\ fltr_threshold > 0 /\ \A i \in 1 .. MaxPos : input_vcf.recs[i].score # NoScore

NextCoop ==
  \/ watch_beagle_spawn
  \/ watch_beagle_line(TRUE)
  \/ watch_beagle_timeout(TRUE)
  \/ watch_beagle_eof
  \/ split_out_current_window
  \/ filter_window_stitch
  \/ job_exit
  \/ job_write

\* the program's own steps are taken when they can be; a running job
\* eventually closes its output unless it is killed first
FairSpec ==
  /\ InitCoop /\ [][NextCoop]_vars
  /\ WF_vars(watch_beagle_spawn)
  /\ WF_vars(split_out_current_window)
  /\ WF_vars(filter_window_stitch)
  /\ WF_vars(watch_beagle_eof)

\* ------------------------------------------------------------ properties
\* number of BEAGLE processes that are alive
LiveJobs == (IF process = "alive" THEN 1 ELSE 0) + orphans

\* the records of the current window in the current VCF, as a filtering
\* pass pulls them
WindowLines ==
  SelectSeq(current_vcf.recs,
            LAMBDA r : /\ r.chrom = cur_window.chrom
                       /\ r.pos >= cur_window.start
                       /\ r.pos <= cur_window.end)

AllScored(lines) == \A i \in 1 .. Len(lines) : lines[i].score # NoScore
SomeScored(lines) == \E i \in 1 .. Len(lines) : lines[i].score # NoScore
DistinctScores(lines) ==
  \A i, j \in 1 .. Len(lines) : i # j => lines[i].score # lines[j].score
UniqueLowest(lines) ==
  \E i \in 1 .. Len(lines) :
    \A j \in 1 .. Len(lines) : j # i => lines[j].score > lines[i].score

\* a step that is a completed filtering pass
PassStep == pc = "filter" /\ pc' = "inner_spawn"
\* a step that is a stitch
StitchStep == pc = "stitch" /\ pc' = "outer_spawn"

\* ascending sort, by insertion
RECURSIVE Insert(_, _)
Insert(x, s) ==
  IF s = <<>> THEN <<x>>
  ELSE IF x <= Head(s) THEN <<x>> \o s
  ELSE <<Head(s)>> \o Insert(x, Tail(s))
RECURSIVE SortAsc(_)
SortAsc(s) == IF s = <<>> THEN <<>> ELSE Insert(Head(s), SortAsc(Tail(s)))

\* the fnum/FDen quantile of the scores of lines (all scored, not empty),
\* linearly interpolated between the order statistics, times FDen
CutoffOf(lines, fnum) ==
  LET srt == SortAsc([i \in 1 .. Len(lines) |-> lines[i].score])
      h   == fnum * (Len(lines) - 1)
      lo  == h \div FDen
      rem == h - lo * FDen
  IN  IF rem = 0 THEN srt[lo + 1] * FDen
      ELSE srt[lo + 1] * FDen + rem * (srt[lo + 2] - srt[lo + 1])

\* s is a subsequence of t
RECURSIVE IsSubSeq(_, _)
IsSubSeq(s, t) ==
  IF s = <<>> THEN TRUE
  ELSE IF t = <<>> THEN FALSE
  ELSE IF Head(s) = Head(t) THEN IsSubSeq(Tail(s), Tail(t))
  ELSE IsSubSeq(s, Tail(t))

\* C1: a run is classified StallTimeout only if the job was silent for at
\* least the stall timeout since the later of the run's start and its last
\* line.
C1_StallOnlyAfterTimeout ==
  outcome = "StallTimeout" => silence >= Timeout

\* C2: the stitched VCF is the header once, the old records before the
\* window, the retained window records, the old records after the window.
C2_StitchedDataset ==
  [][StitchStep =>
       current_vcf' =
         [hdr  |-> 1,
          recs |-> SelectSeq(old_vcf.recs, LAMBDA r : r.pos < cur_window.start)
                   \o current_vcf.recs
                   \o SelectSeq(old_vcf.recs, LAMBDA r : r.pos > cur_window.end)]
    ]_vars

\* C3: a MemoryExhausted classification raises the heap by 10 and leaves the
\* VCF and the dropped loci alone until the job is run again.
C3_HeapErrorOnlyGrowsHeap ==
  [][/\ outcome # "MemoryExhausted" /\ outcome' = "MemoryExhausted" =>
          /\ heap_size' = heap_size + 10
          /\ current_vcf' = current_vcf
          /\ loci' = loci
     /\ outcome = "MemoryExhausted" =>
          /\ current_vcf' = current_vcf
          /\ loci' = loci
    ]_vars

\* C4: at most one BEAGLE process is alive.  (Every bcftools process is
\* read to its end of file inside one step, so none is alive in a state.)
C4_OneJobProcess == LiveJobs <= 1

\* C5: with a cooperative job, pairwise distinct scores in the window and a
\* drop fraction > 0, a stall is eventually followed by Done.
C5_Stalled ==
  /\ pc = "filter"
  /\ outcome = "StallTimeout"
  /\ cur_window # NoWindow
  /\ fltr_threshold > 0
  /\ WindowLines # <<>>
  /\ AllScored(WindowLines)
  /\ DistinctScores(WindowLines)
C5_EventuallyDone == C5_Stalled ~> pc = "done"

\* C6: a pass over a window of scored records retains, in order, exactly
\* the records whose score is >= the quantile cutoff, hands exactly the
\* records below it to the locus store, and dropped + retained = total.
C6_PassPartitions ==
  [][PassStep /\ WindowLines # <<>> /\ AllScored(WindowLines) =>
       LET cutoff   == CutoffOf(WindowLines, fltr_threshold)
           retained == SelectSeq(WindowLines,
                                 LAMBDA r : r.score * FDen >= cutoff)
           dropped  == SelectSeq(WindowLines,
                                 LAMBDA r : r.score * FDen < cutoff)
       IN  /\ current_vcf'.recs = retained
           /\ loci' = loci \o dropped
           /\ Len(loci') - Len(loci) + Len(current_vcf'.recs)
                = Len(WindowLines)
    ]_vars
C6_Witness ==
  /\ pc = "inner_spawn"
  /\ loci # <<>>
  /\ current_vcf.recs # <<>>
  /\ AllScored(loci) /\ AllScored(current_vcf.recs)
  /\ \A i \in 1 .. Len(loci) : \A j \in 1 .. Len(current_vcf.recs) :
       loci[i].score < current_vcf.recs[j].score

\* C7: the heap never shrinks, it is the initial heap plus 10 for each
\* MemoryExhausted classification, and a run is started with that heap.
C7_HeapGrowth ==
  [][/\ heap_size' >= heap_size
     /\ heap_size' = InitHeap + 10 * num_heap_errors'
     /\ pc' \in Reading /\ pc \notin Reading =>
          proc_heap' = InitHeap + 10 * num_heap_errors
    ]_vars
C7_Witness ==
  /\ pc \in Reading
  /\ num_heap_errors = 1
  /\ proc_heap = 15

\* C8: after an interrupt no BEAGLE process spawned by the watcher is alive.
C8_InterruptKillsAll == pc = "exit1" => LiveJobs = 0

\* C9: a pass over a window with a record that lacks the quality field ends
\* in a fatal error.
C9_MissingFieldIsFatal ==
  [][/\ pc = "filter"
     /\ pc' \notin {"filter", "exit1"}
     /\ cur_window # NoWindow
     /\ ~AllScored(WindowLines)
     => pc' = "fatal"
    ]_vars

\* C10 as stated: a pass over a window with a scored record retains strictly
\* fewer records than it started from.
C10_PassStrictlyShrinks ==
  [][PassStep /\ SomeScored(WindowLines) =>
       Len(current_vcf'.recs) < Len(WindowLines)
    ]_vars

\* C10 amended: a pass retains a subsequence of the records it started from;
\* the subsequence is strictly shorter when the window has at least two
\* records, all scored, one record alone has the lowest score, and the drop
\* fraction is > 0.
C10_PassShrinks ==
  [][PassStep =>
       /\ IsSubSeq(current_vcf'.recs, WindowLines)
       /\ IsSubSeq(current_vcf'.recs, current_vcf.recs)
       /\ ( /\ Len(WindowLines) >= 2
            /\ AllScored(WindowLines)
            /\ UniqueLowest(WindowLines)
            /\ fltr_threshold > 0
            => Len(current_vcf'.recs) < Len(WindowLines) )
    ]_vars
C10_Witness ==
  /\ pc = "inner_spawn"
  /\ outcome = "StallTimeout"
  /\ loci # <<>>
  /\ Len(current_vcf.recs) >= 1

\* number of times r occurs in the sequence s
Count(r, s) == Cardinality({i \in 1 .. Len(s) : s[i] = r})

\* a step in which watch_beagle handles a line that parses
LineStep ==
  /\ pc \in Reading
  /\ \/ outcome = "running" /\ outcome' = "MemoryExhausted"
     \/ cur_window' # cur_window
     \/ silence' < silence
     \/ announced' # announced

\* a step in which watch_beagle classifies the run as StallTimeout
StallStep == outcome = "running" /\ outcome' = "StallTimeout"

\* C11: run() ends normally only when a run of the outer loop returned
\* Completed on the input VCF or on a stitched one; a Completed run of the
\* sub-loop leads to the stitch, and the stitch to a run of the outer loop.
C11_DoneOnlyAfterOuterCompleted ==
  [][/\ pc' = "done" /\ pc # "done" =>
          /\ pc = "outer_read"
          /\ outcome' = "Completed"
          /\ \/ recoveries = 0 /\ current_vcf = input_vcf
             \/ recoveries > 0 /\ stall_window = NoWindow
     /\ pc = "inner_read" /\ outcome' = "Completed" => pc' = "stitch"
     /\ pc = "stitch" /\ pc' # "stitch" => pc' \in {"outer_spawn", "exit1"}
     /\ pc = "outer_spawn" /\ pc' # "outer_spawn" =>
          pc' \in {"outer_read", "exit1"}
    ]_vars
C11_Witness == pc = "done" /\ recoveries > 0 /\ outcome = "Completed"

\* C12: when filtering removed nothing from the window, the body of the
\* stitched VCF is the body of the old VCF.
C12_NoOpStitchIsIdentity ==
  [][/\ StitchStep
     /\ loci = <<>>
     /\ current_vcf.recs =
          SelectSeq(old_vcf.recs, LAMBDA r : /\ r.pos >= cur_window.start
                                             /\ r.pos <= cur_window.end)
     => current_vcf'.recs = old_vcf.recs
    ]_vars

\* C13: after watch_beagle has handled a line, total_waiting is 0.
C13_LineResetsWaiting == [][LineStep => total_waiting' = 0]_vars

\* C14: when a run is classified StallTimeout its process has been killed and
\* neither output file exists; unless another BEAGLE process was left alive
\* earlier, they stay absent until the next run starts.
C14_StallRemovesArtifacts ==
  [][/\ StallStep => process' = "dead" /\ artifacts' = {}
     /\ outcome' = "StallTimeout" /\ num_heap_errors' = 0 => artifacts' = {}
    ]_vars
C14_Witness ==
  /\ pc = "inner_spawn"
  /\ outcome = "StallTimeout"
  /\ artifacts = {}
  /\ process = "dead"

\* C15: an error other than the two caught ones ends run() for good: a line
\* that does not parse is fatal, and neither the step into the fatal state
\* nor any later step runs BEAGLE, filters or changes the heap.
C15_OtherErrorsAreFatal ==
  [][/\ outcome' = "error" /\ outcome # "error" => pc' = "fatal"
     /\ pc' = "fatal" =>
          /\ pc \in {"fatal", "outer_read", "inner_read", "filter"}
          /\ heap_size' = heap_size
          /\ current_vcf' = current_vcf
          /\ loci' = loci
          /\ proc_heap' = proc_heap
          /\ process' = "alive" => process = "alive"
     /\ pc = "fatal" => pc' = "fatal"
    ]_vars
C15_Witness == pc = "fatal" /\ outcome = "error" /\ process = "alive"

\* C16: when no BEAGLE run is in progress, self.process is None.
C16_HandleNullWhenIdle ==
  pc \in {"outer_spawn", "inner_spawn", "filter", "stitch", "done"} =>
    process = "None"

\* C17: total_waiting changes only when a line is read, which sets it to 0,
\* or when a read times out, which adds check_every (up to the cap of the
\* counter).
C17_WaitingFrame ==
  [][\/ total_waiting' = total_waiting
     \/ /\ pc \in Reading /\ pc' = pc
        /\ total_waiting' = 0
        /\ silence' = 0
        /\ outcome' = outcome
     \/ /\ pc \in Reading
        /\ total_waiting' = Min(total_waiting + CheckEvery, WaitCap)
        /\ silence' = Min(silence + CheckEvery, WaitCap)
        /\ pc' = pc \/ StallStep
    ]_vars
C17_Witness ==
  /\ pc = "inner_read"
  /\ total_waiting >= Timeout
  /\ silence = 0
  /\ outcome = "running"

\* C18: a filtering pass that follows a StallTimeout starts with a window
\* that is set and was announced by the run that stalled.
C18_FilterHasRunWindow ==
  pc = "filter" /\ outcome = "StallTimeout" =>
    cur_window # NoWindow /\ announced

\* C19: every filtering pass and the stitch of a recovery use the window
\* held when run() caught the StallTimeout.
C19_RecoveryKeepsWindow ==
  [][PassStep \/ StitchStep => cur_window = stall_window]_vars

\* C20: between recoveries every record of the input VCF is exactly once in
\* the current VCF or exactly once in the locus store.
C20_RecordAccounting ==
  pc \in {"outer_spawn", "outer_read", "done"} =>
    \A i \in 1 .. Len(input_vcf.recs) :
      Count(input_vcf.recs[i], current_vcf.recs)
        + Count(input_vcf.recs[i], loci) = 1
====
